---------------------------- MODULE Spec2Model ----------------------------
(***************************************************************************)
(* A model of app.py: the /websocket echo handler echo_socket, one loop    *)
(* instance per connection, and the HTTP routes over the process-wide      *)
(* todos list.                                                             *)
(*                                                                         *)
(* Text is a sequence of one-character strings, so that json.loads, the    *)
(* dictionary lookup and the f-string are computed character by character  *)
(* the way the library computes them.  Python values are tagged records    *)
(* [t |-> tag, v |-> payload]; every payload is a sequence.                *)
(***************************************************************************)
EXTENDS Integers, Sequences, FiniteSets, TLC

(***************************************************************************)
(* Python values                                                           *)
(***************************************************************************)
PyNone == [t |-> "None", v |-> <<>>]

PyTrue == [t |-> "True", v |-> <<>>]

PyFalse == [t |-> "False", v |-> <<>>]

PyInt(n) == [t |-> "int", v |-> <<n>>]

PyStrOf(chars) == [t |-> "str", v |-> chars]

PyList(elems) == [t |-> "list", v |-> elems]

\* A dict is its items in insertion order, keys pairwise distinct.
PyDict(items) == [t |-> "dict", v |-> items]

Item(k, val) == [k |-> k, val |-> val]

RECURSIVE SetItemFrom(_, _, _, _)
SetItemFrom(items, k, val, i) ==
    IF i > Len(items) THEN Append(items, Item(k, val))
    ELSE IF items[i].k = k THEN [items EXCEPT ![i] = Item(k, val)]
    ELSE SetItemFrom(items, k, val, i + 1)

\* d[k] = val: an existing key keeps its position and takes the new value.
SetItem(items, k, val) == SetItemFrom(items, k, val, 1)

(***************************************************************************)
(* json.loads (app.py line 19), over the part of JSON the model's inbound  *)
(* units are written in: objects, arrays, strings with the escapes below,  *)
(* integers, true, false, null, and whitespace.                            *)
(***************************************************************************)
Quote == "\""

Backslash == "\\"

Whitespace == {" ", "\t", "\n", "\r"}

ControlChars == {"\t", "\n", "\r", "\f"}

Digits == <<"0", "1", "2", "3", "4", "5", "6", "7", "8", "9">>

IsDigit(c) == \E d \in 1..10 : Digits[d] = c

DigitValue(c) == (CHOOSE d \in 1..10 : Digits[d] = c) - 1

\* The character at position i, "" past the end.
At(s, i) == IF i >= 1 /\ i <= Len(s) THEN s[i] ELSE ""

Matches(s, i, word) ==
    /\ i + Len(word) - 1 <= Len(s)
    /\ SubSeq(s, i, i + Len(word) - 1) = word

RECURSIVE SkipWs(_, _)
SkipWs(s, i) == IF At(s, i) \in Whitespace THEN SkipWs(s, i + 1) ELSE i

Fail == [ok |-> FALSE, val |-> PyNone, pos |-> 0]

Ok(val, pos) == [ok |-> TRUE, val |-> val, pos |-> pos]

\* The character an escape sequence \c stands for, "" when c starts none.
Unescape(c) ==
    CASE c = Quote -> Quote
      [] c = Backslash -> Backslash
      [] c = "/" -> "/"
      [] c = "n" -> "\n"
      [] c = "t" -> "\t"
      [] c = "r" -> "\r"
      [] c = "f" -> "\f"
      [] OTHER -> ""

\* scanstring: s[i] is the first character after the opening quote.
RECURSIVE ScanString(_, _, _)
ScanString(s, i, acc) ==
    LET c == At(s, i) IN
    IF c = "" THEN Fail
    ELSE IF c = Quote THEN Ok(acc, i + 1)
    ELSE IF c \in ControlChars THEN Fail
    ELSE IF c = Backslash
         THEN IF Unescape(At(s, i + 1)) = "" THEN Fail
              ELSE ScanString(s, i + 2, Append(acc, Unescape(At(s, i + 1))))
    ELSE ScanString(s, i + 1, Append(acc, c))

RECURSIVE ScanDigits(_, _, _)
ScanDigits(s, i, n) ==
    IF IsDigit(At(s, i)) THEN ScanDigits(s, i + 1, 10 * n + DigitValue(At(s, i)))
    ELSE [n |-> n, pos |-> i]

\* An integer: -?(0|[1-9][0-9]*).
ScanNumber(s, i) ==
    LET neg == At(s, i) = "-"
        j == IF neg THEN i + 1 ELSE i
        r == IF At(s, j) = "0" THEN [n |-> 0, pos |-> j + 1]
             ELSE ScanDigits(s, j, 0)
    IN  IF ~IsDigit(At(s, j)) THEN Fail
        ELSE Ok(PyInt(IF neg THEN 0 - r.n ELSE r.n), r.pos)

RECURSIVE ScanOnce(_, _)
RECURSIVE ScanMembers(_, _, _)
RECURSIVE ScanElements(_, _, _)

\* JSONObject after the opening brace: s[i] is at the quote of the next key.
ScanMembers(s, i, items) ==
    IF At(s, i) # Quote THEN Fail
    ELSE LET key == ScanString(s, i + 1, <<>>) IN
         IF ~key.ok THEN Fail
         ELSE LET colon == SkipWs(s, key.pos) IN
              IF At(s, colon) # ":" THEN Fail
              ELSE LET val == ScanOnce(s, SkipWs(s, colon + 1)) IN
                   IF ~val.ok THEN Fail
                   ELSE LET next == SkipWs(s, val.pos)
                            sofar == SetItem(items, key.val, val.val)
                        IN  IF At(s, next) = "}" THEN Ok(PyDict(sofar), next + 1)
                            ELSE IF At(s, next) = ","
                                 THEN ScanMembers(s, SkipWs(s, next + 1), sofar)
                            ELSE Fail

\* JSONArray after the opening bracket: s[i] is at the next element.
ScanElements(s, i, elems) ==
    LET val == ScanOnce(s, i) IN
    IF ~val.ok THEN Fail
    ELSE LET next == SkipWs(s, val.pos)
             sofar == Append(elems, val.val)
         IN  IF At(s, next) = "]" THEN Ok(PyList(sofar), next + 1)
             ELSE IF At(s, next) = ","
                  THEN ScanElements(s, SkipWs(s, next + 1), sofar)
             ELSE Fail

\* scan_once: one JSON value starting exactly at s[i].
ScanOnce(s, i) ==
    LET c == At(s, i) IN
    IF c = Quote
    THEN LET r == ScanString(s, i + 1, <<>>) IN
         IF r.ok THEN Ok(PyStrOf(r.val), r.pos) ELSE Fail
    ELSE IF c = "{"
    THEN LET j == SkipWs(s, i + 1) IN
         IF At(s, j) = "}" THEN Ok(PyDict(<<>>), j + 1)
         ELSE ScanMembers(s, j, <<>>)
    ELSE IF c = "["
    THEN LET j == SkipWs(s, i + 1) IN
         IF At(s, j) = "]" THEN Ok(PyList(<<>>), j + 1)
         ELSE ScanElements(s, j, <<>>)
    ELSE IF Matches(s, i, <<"n", "u", "l", "l">>) THEN Ok(PyNone, i + 4)
    ELSE IF Matches(s, i, <<"t", "r", "u", "e">>) THEN Ok(PyTrue, i + 4)
    ELSE IF Matches(s, i, <<"f", "a", "l", "s", "e">>) THEN Ok(PyFalse, i + 5)
    ELSE IF c = "-" \/ IsDigit(c) THEN ScanNumber(s, i)
    ELSE Fail

\* The outcome of a call: the exception raised ("" for none) and the value.
Returned(val) == [exc |-> "", val |-> val]

Raised(exc) == [exc |-> exc, val |-> PyNone]

\* A decoder that stops at the end of the first document (raw_decode) and
\* does not look at what follows it.
DecodeFirst(s) ==
    LET r == ScanOnce(s, SkipWs(s, 1)) IN
    IF r.ok THEN Returned(r.val) ELSE Raised("JSONDecodeError")

\* JSONDecoder.decode(s): one JSON document with nothing but whitespace
\* around it.
Decode(s) ==
    LET r == ScanOnce(s, SkipWs(s, 1)) IN
    IF r.ok /\ SkipWs(s, r.pos) = Len(s) + 1 THEN Returned(r.val)
    ELSE Raised("JSONDecodeError")

\* A loads that takes what is not text for an empty object.
LoadsOrEmpty(message) ==
    IF message.t # "str" THEN Returned(PyDict(<<>>)) ELSE Decode(message.v)

\* json.loads(message): a str is decoded; None (and every other non-text) is
\* a TypeError.
Loads(message) ==
    IF message.t # "str" THEN Raised("TypeError") ELSE Decode(message.v)

(***************************************************************************)
(* message.get("chat_message") (app.py line 20)                            *)
(***************************************************************************)
ChatMessageKey == <<"c", "h", "a", "t", "_", "m", "e", "s", "s", "a", "g", "e">>

RECURSIVE Lookup(_, _, _)
Lookup(items, k, i) ==
    IF i > Len(items) THEN PyNone
    ELSE IF items[i].k = k THEN items[i].val
    ELSE Lookup(items, k, i + 1)

RECURSIVE HasKey(_, _, _)
HasKey(items, k, i) ==
    IF i > Len(items) THEN FALSE
    ELSE IF items[i].k = k THEN TRUE
    ELSE HasKey(items, k, i + 1)

\* message["chat_message"]: a missing key is a KeyError.
GetItem(message, k) ==
    IF message.t # "dict" THEN Raised("TypeError")
    ELSE IF HasKey(message.v, k, 1) THEN Returned(Lookup(message.v, k, 1))
    ELSE Raised("KeyError")

\* A lookup that takes what is no dict for an empty one.
GetGuarded(message, k) ==
    IF message.t = "dict" THEN Returned(Lookup(message.v, k, 1))
    ELSE Returned(PyNone)

\* Only a dict has a get method; the default of a missing key is None.
Get(message, k) ==
    IF message.t = "dict" THEN Returned(Lookup(message.v, k, 1))
    ELSE Raised("AttributeError")

(***************************************************************************)
(* f"Received message: {message}" (app.py line 21): format(message, ""),   *)
(* which is str(message); the items of a list or dict are shown by repr.   *)
(***************************************************************************)
ReplyPrefix ==
    <<"R", "e", "c", "e", "i", "v", "e", "d", " ",
      "m", "e", "s", "s", "a", "g", "e", ":", " ">>

RECURSIVE IntDigits(_)
IntDigits(n) ==
    IF n < 10 THEN <<Digits[n + 1]>>
    ELSE Append(IntDigits(n \div 10), Digits[(n % 10) + 1])

IntStr(n) == IF n < 0 THEN <<"-">> \o IntDigits(0 - n) ELSE IntDigits(n)

Contains(s, c) == \E i \in 1..Len(s) : s[i] = c

\* repr of one character of a str inside the quote character q.
ReprChar(c, q) ==
    CASE c = Backslash -> <<Backslash, Backslash>>
      [] c = q -> <<Backslash, q>>
      [] c = "\n" -> <<Backslash, "n">>
      [] c = "\t" -> <<Backslash, "t">>
      [] c = "\r" -> <<Backslash, "r">>
      [] c = "\f" -> <<Backslash, "x", "0", "c">>
      [] OTHER -> <<c>>

RECURSIVE ReprChars(_, _, _)
ReprChars(s, q, i) ==
    IF i > Len(s) THEN <<>> ELSE ReprChar(s[i], q) \o ReprChars(s, q, i + 1)

\* repr(str): single quotes, unless the text holds ' and no ".
StrRepr(s) ==
    LET q == IF Contains(s, "'") /\ ~Contains(s, Quote) THEN Quote ELSE "'"
    IN  <<q>> \o ReprChars(s, q, 1) \o <<q>>

RECURSIVE PyRepr(_)
RECURSIVE ReprElements(_, _)
RECURSIVE ReprItems(_, _)

ReprElements(elems, i) ==
    IF i > Len(elems) THEN <<>>
    ELSE (IF i > 1 THEN <<",", " ">> ELSE <<>>)
         \o PyRepr(elems[i]) \o ReprElements(elems, i + 1)

ReprItems(items, i) ==
    IF i > Len(items) THEN <<>>
    ELSE (IF i > 1 THEN <<",", " ">> ELSE <<>>)
         \o StrRepr(items[i].k) \o <<":", " ">> \o PyRepr(items[i].val)
         \o ReprItems(items, i + 1)

PyRepr(x) ==
    CASE x.t = "None" -> <<"N", "o", "n", "e">>
      [] x.t = "True" -> <<"T", "r", "u", "e">>
      [] x.t = "False" -> <<"F", "a", "l", "s", "e">>
      [] x.t = "int" -> IntStr(x.v[1])
      [] x.t = "str" -> StrRepr(x.v)
      [] x.t = "list" -> <<"[">> \o ReprElements(x.v, 1) \o <<"]">>
      [] x.t = "dict" -> <<"{">> \o ReprItems(x.v, 1) \o <<"}">>

\* str(x): a str is itself, everything else is its repr.
PyStr(x) == IF x.t = "str" THEN x.v ELSE PyRepr(x)

\* f"Received message: {message!r}"
FormatRepr(message) == ReplyPrefix \o PyRepr(message)

Format(message) == ReplyPrefix \o PyStr(message)

(***************************************************************************)
(* Inbound units: the texts a peer writes on a connection.  Each sample    *)
(* is written out with the value a JSON reader must find in it (doc), or   *)
(* as malformed; the handler sees the text only.                           *)
(***************************************************************************)
JsonString(chars) == <<Quote>> \o chars \o <<Quote>>

JsonMember(k, valueText) == JsonString(k) \o <<":", " ">> \o valueText

JsonObject1(m) == <<"{">> \o m \o <<"}">>

JsonObject2(m1, m2) == <<"{">> \o m1 \o <<",", " ">> \o m2 \o <<"}">>

Hi == <<"h", "i">>

Bye == <<"b", "y", "e">>

UserKey == <<"u", "s", "e", "r">>

NoneShown == <<"N", "o", "n", "e">>

\* text: what is on the wire; wellFormed: whether it is one JSON document;
\* doc: the value it denotes; shown: for an object, the text that the str() of
\* its chat_message (None when it has none) is.
Unit(text, wellFormed, doc, shown) ==
    [text |-> text, wellFormed |-> wellFormed, doc |-> doc, shown |-> shown]

\* {"chat_message": "hi"}
UnitHi ==
    Unit(JsonObject1(JsonMember(ChatMessageKey, JsonString(Hi))), TRUE,
         PyDict(<<Item(ChatMessageKey, PyStrOf(Hi))>>),
         Hi)

\* {"chat_message": "bye"}
UnitBye ==
    Unit(JsonObject1(JsonMember(ChatMessageKey, JsonString(Bye))), TRUE,
         PyDict(<<Item(ChatMessageKey, PyStrOf(Bye))>>),
         Bye)

\* {}
UnitEmptyObject == Unit(<<"{", "}">>, TRUE, PyDict(<<>>),
         NoneShown)

\* {"user": "hi"}
UnitOtherField ==
    Unit(JsonObject1(JsonMember(UserKey, JsonString(Hi))), TRUE,
         PyDict(<<Item(UserKey, PyStrOf(Hi))>>),
         NoneShown)

\* {"chat_message": "hi"   (the closing brace is missing)
UnitTruncated ==
    Unit(<<"{">> \o JsonMember(ChatMessageKey, JsonString(Hi)), FALSE, PyNone,
         <<>>)

\* ["hi"]
UnitArray == Unit(<<"[">> \o JsonString(Hi) \o <<"]">>, TRUE, PyList(<<PyStrOf(Hi)>>),
         <<>>)

\* hi   (plain text, not JSON)
UnitPlainText == Unit(Hi, FALSE, PyNone,
         <<>>)

\* the empty text
UnitEmptyText == Unit(<<>>, FALSE, PyNone,
         <<>>)

\* "hi"   (a JSON string, not an object)
UnitJsonString == Unit(JsonString(Hi), TRUE, PyStrOf(Hi),
         <<>>)

\* null
UnitJsonNull == Unit(<<"n", "u", "l", "l">>, TRUE, PyNone,
         <<>>)

\* {"chat_message": null}
UnitNullField ==
    Unit(JsonObject1(JsonMember(ChatMessageKey, <<"n", "u", "l", "l">>)), TRUE,
         PyDict(<<Item(ChatMessageKey, PyNone)>>),
         NoneShown)

\* {"chat_message": 42}
UnitNumberField ==
    Unit(JsonObject1(JsonMember(ChatMessageKey, <<"4", "2">>)), TRUE,
         PyDict(<<Item(ChatMessageKey, PyInt(42))>>),
         <<"4", "2">>)

\* {"chat_message": ["hi", true]}
UnitListField ==
    Unit(JsonObject1(JsonMember(ChatMessageKey,
             <<"[">> \o JsonString(Hi) \o <<",", "t", "r", "u", "e", "]">>)), TRUE,
         PyDict(<<Item(ChatMessageKey, PyList(<<PyStrOf(Hi), PyTrue>>))>>),
         <<"[", "'", "h", "i", "'", ",", " ", "T", "r", "u", "e", "]">>)

\* {"chat_message": "a\"b\\\n"}   (escapes: the text is a"b\ and a line feed)
UnitEscapes ==
    Unit(JsonObject1(JsonMember(ChatMessageKey,
             JsonString(<<"a", Backslash, Quote, "b", Backslash, Backslash,
                          Backslash, "n">>))), TRUE,
         PyDict(<<Item(ChatMessageKey, PyStrOf(<<"a", Quote, "b", Backslash, "\n">>))>>),
         <<"a", Quote, "b", Backslash, "\n">>)

\* {"chat_message": ""}
UnitEmptyMessage ==
    Unit(JsonObject1(JsonMember(ChatMessageKey, JsonString(<<>>))), TRUE,
         PyDict(<<Item(ChatMessageKey, PyStrOf(<<>>))>>),
         <<>>)

\* {"chat_message": "None"}
UnitNoneText ==
    Unit(JsonObject1(JsonMember(ChatMessageKey, JsonString(<<"N", "o", "n", "e">>))), TRUE,
         PyDict(<<Item(ChatMessageKey, PyStrOf(<<"N", "o", "n", "e">>))>>),
         NoneShown)

\* {"chat_message": "hi", "chat_message": "bye"}   (the last one counts)
UnitDuplicateKey ==
    Unit(JsonObject2(JsonMember(ChatMessageKey, JsonString(Hi)),
                     JsonMember(ChatMessageKey, JsonString(Bye))), TRUE,
         PyDict(<<Item(ChatMessageKey, PyStrOf(Bye))>>),
         Bye)

\* {"user": "hi", "chat_message": "bye"}
UnitTwoFields ==
    Unit(JsonObject2(JsonMember(UserKey, JsonString(Hi)),
                     JsonMember(ChatMessageKey, JsonString(Bye))), TRUE,
         PyDict(<<Item(UserKey, PyStrOf(Hi)), Item(ChatMessageKey, PyStrOf(Bye))>>),
         Bye)

\*  { "chat_message" :"hi" }   (whitespace around every token)
UnitSpaced ==
    Unit(<<" ", "{", " ">> \o JsonString(ChatMessageKey) \o <<" ", ":">>
             \o JsonString(Hi) \o <<" ", "}", "\n">>, TRUE,
         PyDict(<<Item(ChatMessageKey, PyStrOf(Hi))>>),
         Hi)

\* {"chat_message": "hi"} {}   (two documents in one unit)
UnitExtraData ==
    Unit(JsonObject1(JsonMember(ChatMessageKey, JsonString(Hi))) \o <<" ", "{", "}">>,
         FALSE, PyNone,
         <<>>)

\* {"chat_message": "hi",}   (a trailing comma)
UnitTrailingComma ==
    Unit(<<"{">> \o JsonMember(ChatMessageKey, JsonString(Hi)) \o <<",", "}">>,
         FALSE, PyNone,
         <<>>)

\* The units peers send while connections and requests interleave.
Units == <<UnitHi, UnitBye, UnitEmptyObject, UnitTruncated, UnitArray>>

\* The units a single connection is fed in EchoSpec.
SampleUnits ==
    Units \o <<UnitOtherField, UnitPlainText, UnitEmptyText, UnitJsonString,
               UnitJsonNull, UnitNullField, UnitNumberField, UnitListField,
               UnitEscapes, UnitEmptyMessage, UnitNoneText, UnitDuplicateKey,
               UnitTwoFields, UnitSpaced, UnitExtraData, UnitTrailingComma>>

(***************************************************************************)
(* Bounds and input sets                                                   *)
(***************************************************************************)
\* The inputs the environment delivers in one run of Spec: inbound units
\* and HTTP requests together.
MaxInputs == 2

\* The most units a peer has written before the handler starts, in EchoSpec.
MaxBacklog == 2

\* The connections served at the same time, one echo_socket instance each.
Conns == {"c1", "c2"}

\* The greenlets serving POST /todo requests at the same time.
Workers == {"w1", "w2"}

TodoKey == <<"t", "o", "d", "o">>

\* The forms posted to /todo: todo=a, todo= (empty), and no todo field.
Forms ==
    << <<Item(TodoKey, PyStrOf(<<"a">>))>>,
       <<Item(TodoKey, PyStrOf(<<>>))>>,
       <<Item(UserKey, PyStrOf(Hi))>> >>

\* The readings of the clock time.ctime() formats.
Times == {"Mon Nov  2 20:43:00 2026", "Mon Nov  2 20:43:01 2026"}

(***************************************************************************)
(* State                                                                   *)
(***************************************************************************)
VARIABLES
    todos,      \* the process-wide list (app.py lines 9-12)
    pc,         \* per connection: where its echo_socket instance stands
    message,    \* echo_socket's local variable message
    exc,        \* per connection: the exception that ended echo_socket, or ""
    closed,     \* per connection: ws.closed
    inbox,      \* per connection: units written by the peer, not yet received
    peerGone,   \* per connection: the peer has closed its end
    outbox,     \* per connection: the replies written to the peer
    received,   \* per connection: what each completed ws.receive() returned
    sent,       \* per connection: the argument of each ws.send() call
    wpc,        \* per worker: where its add_todo call stands
    form,       \* per worker: request.form of the request being served
    todo,       \* per worker: add_todo's local variable todo
    response,   \* the body of the last HTTP response
    posts,      \* the add_todo calls that have returned
    seen,       \* per worker: len(todos) when its call read the form
    inputs      \* the inputs delivered so far

sockVars == <<pc, message, exc, closed, inbox, peerGone, outbox, received, sent>>

httpVars == <<todos, wpc, form, todo, response, posts, seen>>

vars == <<sockVars, httpVars, inputs>>

Todo(id, title) == [id |-> id, title |-> title, completed |-> FALSE]

InitialTodos ==
    << Todo(1, PyStrOf(<<"w", "a", "l", "k", " ", "t", "h", "e", " ", "d", "o", "g">>)),
       Todo(2, PyStrOf(<<"f", "e", "e", "d", " ", "t", "h", "e", " ", "c", "a", "t">>)) >>

NoResponse == [route |-> "", todos |-> <<>>, time |-> ""]

HttpInit ==
    /\ todos = InitialTodos
    /\ wpc = [w \in Workers |-> "idle"]
    /\ form = [w \in Workers |-> <<>>]
    /\ todo = [w \in Workers |-> PyNone]
    /\ response = NoResponse
    /\ posts = 0
    /\ seen = [w \in Workers |-> 0]

\* The handler is about to evaluate its loop condition for the first time, on
\* a handle that is open or already closed; the peer has written nothing yet.
Init ==
    /\ HttpInit
    /\ pc = [c \in Conns |-> "while"]
    /\ message = [c \in Conns |-> PyNone]
    /\ exc = [c \in Conns |-> ""]
    /\ closed \in [Conns -> BOOLEAN]
    /\ inbox = [c \in Conns |-> <<>>]
    /\ peerGone = [c \in Conns |-> FALSE]
    /\ outbox = [c \in Conns |-> <<>>]
    /\ received = [c \in Conns |-> <<>>]
    /\ sent = [c \in Conns |-> <<>>]
    /\ inputs = 0

(***************************************************************************)
(* echo_socket(ws), one statement per action (app.py lines 16-21)          *)
(***************************************************************************)
\* message as a module-level name, one for all instances.
MessageShared(c) == "c1"

\* message is a local: each instance of echo_socket has its own.
MessageOf(c) == c

\* while True
WhileTrue(isClosed) == TRUE

\* while not ws.closed
WhileCondition(isClosed) == ~isClosed

While(c) ==
    /\ pc[c] = "while"
    /\ pc' = [pc EXCEPT ![c] = IF WhileCondition(closed[c]) THEN "receive" ELSE "returned"]
    /\ UNCHANGED <<message, exc, closed, inbox, peerGone, outbox, received, sent>>
    /\ UNCHANGED <<httpVars, inputs>>

Raise(c, name) ==
    /\ pc' = [pc EXCEPT ![c] = "raised"]
    /\ exc' = [exc EXCEPT ![c] = name]

\* message = ws.receive(): blocks until a unit is there or the peer is gone.
\* A unit is returned as text; a closed peer makes receive close the handle
\* and return None; on a handle already closed receive raises.
Receive(c) ==
    /\ pc[c] = "receive"
    /\ closed[c] \/ inbox[c] # <<>> \/ peerGone[c]
    /\ IF closed[c]
       THEN /\ Raise(c, "WebSocketError")
            /\ UNCHANGED <<message, closed, inbox, received>>
       ELSE IF inbox[c] # <<>>
       THEN /\ message' = [message EXCEPT ![MessageOf(c)] = PyStrOf(Head(inbox[c]))]
            /\ inbox' = [inbox EXCEPT ![c] = Tail(inbox[c])]
            /\ received' = [received EXCEPT ![c] = Append(@, PyStrOf(Head(inbox[c])))]
            /\ pc' = [pc EXCEPT ![c] = "loads"]
            /\ UNCHANGED <<closed, exc>>
       ELSE /\ message' = [message EXCEPT ![MessageOf(c)] = PyNone]
            /\ closed' = [closed EXCEPT ![c] = TRUE]
            /\ received' = [received EXCEPT ![c] = Append(@, PyNone)]
            /\ pc' = [pc EXCEPT ![c] = "loads"]
            /\ UNCHANGED <<inbox, exc>>
    /\ UNCHANGED <<peerGone, outbox, sent>>
    /\ UNCHANGED <<httpVars, inputs>>

\* message = json.loads(message)
JsonLoads(c) ==
    /\ pc[c] = "loads"
    /\ LET r == Loads(message[MessageOf(c)]) IN
       IF r.exc = ""
       THEN /\ message' = [message EXCEPT ![MessageOf(c)] = r.val]
            /\ pc' = [pc EXCEPT ![c] = "get"]
            /\ UNCHANGED exc
       ELSE /\ Raise(c, r.exc)
            /\ UNCHANGED message
    /\ UNCHANGED <<closed, inbox, peerGone, outbox, received, sent>>
    /\ UNCHANGED <<httpVars, inputs>>

\* message = message.get("chat_message")
GetChatMessage(c) ==
    /\ pc[c] = "get"
    /\ LET r == Get(message[MessageOf(c)], ChatMessageKey) IN
       IF r.exc = ""
       THEN /\ message' = [message EXCEPT ![MessageOf(c)] = r.val]
            /\ pc' = [pc EXCEPT ![c] = "send"]
            /\ UNCHANGED exc
       ELSE /\ Raise(c, r.exc)
            /\ UNCHANGED message
    /\ UNCHANGED <<closed, inbox, peerGone, outbox, received, sent>>
    /\ UNCHANGED <<httpVars, inputs>>

\* Texts that reach the peer latest first.
WrittenFirst(box, text) == <<text>> \o box

\* The peer reads the texts written on a connection in the order of the writes.
Written(box, text) == Append(box, text)

\* ws.send(f"Received message: {message}"): the text is written to the peer,
\* or the call raises: always on a closed handle, possibly once the peer is gone.
Send(c) ==
    /\ pc[c] = "send"
    /\ LET text == Format(message[MessageOf(c)]) IN
       /\ sent' = [sent EXCEPT ![c] = Append(@, text)]
       /\ \E written \in (IF closed[c] THEN {FALSE}
                          ELSE IF peerGone[c] THEN {TRUE, FALSE} ELSE {TRUE}) :
             IF written
             THEN /\ outbox' = [outbox EXCEPT ![c] = Written(@, text)]
                  /\ pc' = [pc EXCEPT ![c] = "while"]
                  /\ UNCHANGED exc
             ELSE /\ Raise(c, "WebSocketError")
                  /\ UNCHANGED outbox
    /\ UNCHANGED <<message, closed, inbox, peerGone, received>>
    /\ UNCHANGED <<httpVars, inputs>>

echo_socket(c) ==
    While(c) \/ Receive(c) \/ JsonLoads(c) \/ GetChatMessage(c) \/ Send(c)

Ended(c) == pc[c] \in {"returned", "raised"}

(***************************************************************************)
(* The peer of a connection                                                *)
(***************************************************************************)
PeerSend(c, u) ==
    /\ ~peerGone[c]
    /\ ~Ended(c)
    /\ inputs < MaxInputs
    /\ inbox' = [inbox EXCEPT ![c] = Append(@, u.text)]
    /\ inputs' = inputs + 1
    /\ UNCHANGED <<pc, message, exc, closed, peerGone, outbox, received, sent>>
    /\ UNCHANGED httpVars

PeerClose(c) ==
    /\ ~peerGone[c]
    /\ peerGone' = [peerGone EXCEPT ![c] = TRUE]
    /\ UNCHANGED <<pc, message, exc, closed, inbox, outbox, received, sent>>
    /\ UNCHANGED <<httpVars, inputs>>

(***************************************************************************)
(* The HTTP routes (app.py lines 24-38)                                    *)
(***************************************************************************)
\* homepage(): render_template("index.html", todos=todos)
homepage ==
    /\ inputs < MaxInputs
    /\ inputs' = inputs + 1
    /\ response' = [route |-> "/", todos |-> todos, time |-> ""]
    /\ UNCHANGED <<todos, wpc, form, todo, posts, seen>>
    /\ UNCHANGED sockVars

\* polling(): time.ctime()
polling ==
    /\ inputs < MaxInputs
    /\ inputs' = inputs + 1
    /\ \E t \in Times : response' = [route |-> "/polling", todos |-> <<>>, time |-> t]
    /\ UNCHANGED <<todos, wpc, form, todo, posts, seen>>
    /\ UNCHANGED sockVars

\* A POST /todo request reaches an idle worker, which enters add_todo.
PostTodo(w, f) ==
    /\ wpc[w] = "idle"
    /\ inputs < MaxInputs
    /\ inputs' = inputs + 1
    /\ form' = [form EXCEPT ![w] = f]
    /\ wpc' = [wpc EXCEPT ![w] = "form"]
    /\ UNCHANGED <<todos, todo, response, posts, seen>>
    /\ UNCHANGED sockVars

\* todo = request.form.get("todo")
FormGet(w) ==
    /\ wpc[w] = "form"
    /\ todo' = [todo EXCEPT ![w] = Lookup(form[w], TodoKey, 1)]
    /\ wpc' = [wpc EXCEPT ![w] = "append"]
    /\ seen' = [seen EXCEPT ![w] = Len(todos)]
    /\ UNCHANGED <<todos, form, response, posts>>
    /\ UNCHANGED <<sockVars, inputs>>

\* The id taken from the length read when the call began, before the worker
\* waited for the form.
NextIdSeen(w, list) == seen[w] + 1

\* len(todos) + 1, evaluated by worker w as it builds the record
NextId(w, list) == Len(list) + 1

\* todos.insert(0, ...)
Inserted(w, list, title) == <<Todo(Len(list) + 1, title)>> \o list

\* todos.append({"id": len(todos) + 1, "title": todo, "completed": False}): the
\* server runs greenlets, which switch only where one blocks, and nothing on
\* this line blocks, so the length is read and the record appended in one step.
Appended(w, list, title) == Append(list, Todo(NextId(w, list), title))

\* ... and return render_template("ajax.html", todos=todos)
AppendTodo(w) ==
    /\ wpc[w] = "append"
    /\ todos' = Appended(w, todos, todo[w])
    /\ response' = [route |-> "/todo", todos |-> todos', time |-> ""]
    /\ posts' = posts + 1
    /\ wpc' = [wpc EXCEPT ![w] = "idle"]
    /\ UNCHANGED <<form, todo, seen>>
    /\ UNCHANGED <<sockVars, inputs>>

add_todo(w) == FormGet(w) \/ AppendTodo(w)

(***************************************************************************)
(* Specifications                                                          *)
(***************************************************************************)
Next ==
    \/ \E c \in Conns : echo_socket(c)
    \/ \E c \in Conns : \E i \in 1..Len(Units) : PeerSend(c, Units[i])
    \/ \E c \in Conns : PeerClose(c)
    \/ \E w \in Workers : \E i \in 1..Len(Forms) : PostTodo(w, Forms[i])
    \/ \E w \in Workers : add_todo(w)
    \/ homepage
    \/ polling

\* The server: connections and requests served side by side.
Spec == Init /\ [][Next]_vars

\* One connection on its own, fed from the wider sample: the peer has written
\* up to MaxBacklog units before the handler starts and writes no more.
Echoed == "c1"

Backlogs ==
    UNION {[1..n -> 1..Len(SampleUnits)] : n \in 0..MaxBacklog}

EchoInit ==
    /\ HttpInit
    /\ pc = [c \in Conns |-> "while"]
    /\ message = [c \in Conns |-> PyNone]
    /\ exc = [c \in Conns |-> ""]
    /\ \E b \in BOOLEAN : closed = [c \in Conns |-> c = Echoed /\ b]
    /\ \E backlog \in Backlogs :
          inbox = [c \in Conns |->
                      IF c = Echoed
                      THEN [k \in 1..Len(backlog) |-> SampleUnits[backlog[k]].text]
                      ELSE <<>>]
    /\ peerGone = [c \in Conns |-> FALSE]
    /\ outbox = [c \in Conns |-> <<>>]
    /\ received = [c \in Conns |-> <<>>]
    /\ sent = [c \in Conns |-> <<>>]
    /\ inputs = MaxInputs

EchoNext == echo_socket(Echoed) \/ PeerClose(Echoed)

EchoSpec == EchoInit /\ [][EchoNext]_vars

\* The peer of c has never written a unit.
Unwritten(c) ==
    /\ inbox[c] = <<>>
    /\ \A k \in 1..Len(received[c]) : received[c][k].t # "str"

\* The close is all that is left for the handler of c to see.
OnlyCloseLeft(c) == closed[c] \/ (peerGone[c] /\ Unwritten(c))

\* A handler that can take its next step takes it: a statement runs to its
\* end, and receive returns once the close is there.  Stated for the steps
\* after the close, the only ones the termination properties rest on.
FairEchoSpec == EchoSpec /\ WF_vars(OnlyCloseLeft(Echoed) /\ echo_socket(Echoed))

(***************************************************************************)
(* What the properties below are stated with: the sample a received text   *)
(* comes from, read off the table and not computed by the handler.         *)
(***************************************************************************)
UnitOf(text) ==
    SampleUnits[CHOOSE i \in 1..Len(SampleUnits) : SampleUnits[i].text = text]

\* The unit is one JSON document and that document is an object.
IsRecord(u) == u.wellFormed /\ u.doc.t = "dict"

HasField(u) ==
    IsRecord(u) /\ \E i \in 1..Len(u.doc.v) : u.doc.v[i].k = ChatMessageKey

FieldOf(u) ==
    u.doc.v[CHOOSE i \in 1..Len(u.doc.v) : u.doc.v[i].k = ChatMessageKey].val

HasText(u) == HasField(u) /\ FieldOf(u).t = "str"

Expect(tail) ==
    <<"R", "e", "c", "e", "i", "v", "e", "d", " ",
      "m", "e", "s", "s", "a", "g", "e", ":", " ">> \o tail

\* What receive returned at position k of connection c was a unit (not None).
GotUnit(c, k) == k <= Len(received[c]) /\ received[c][k].t = "str"

UnitAt(c, k) == UnitOf(received[c][k].v)

RECURSIVE RecordCount(_)
RecordCount(got) ==
    IF got = <<>> THEN 0
    ELSE RecordCount(Tail(got))
         + (IF Head(got).t = "str" /\ IsRecord(UnitOf(Head(got).v)) THEN 1 ELSE 0)

RECURSIVE UnitCount(_)
UnitCount(got) ==
    IF got = <<>> THEN 0
    ELSE UnitCount(Tail(got)) + (IF Head(got).t = "str" THEN 1 ELSE 0)

Front(seq) == SubSeq(seq, 1, Len(seq) - 1)

\* What receive has returned and the handler is through with: all of it, but
\* for the last while lines 19-21 are still at work on it.
Handled(c) ==
    IF pc[c] \in {"loads", "get", "send"} THEN Front(received[c]) ELSE received[c]

(***************************************************************************)
(* C1: for every unit received that is a record whose chat_message is the  *)
(* text X, the reply passed to ws.send for it, and written to the peer, is *)
(* exactly "Received message: " followed by X.                             *)
(***************************************************************************)
C1_ReplyIsPrefixThenText ==
    \A c \in Conns : \A k \in 1..Len(sent[c]) :
        GotUnit(c, k) /\ HasText(UnitAt(c, k)) =>
            /\ sent[c][k] = Expect(FieldOf(UnitAt(c, k)).v)
            /\ k <= Len(outbox[c]) => outbox[c][k] = Expect(FieldOf(UnitAt(c, k)).v)

C1_Witness ==
    /\ received[Echoed] = <<PyStrOf(UnitEscapes.text), PyStrOf(UnitDuplicateKey.text)>>
    /\ outbox[Echoed] = <<Expect(<<"a", Quote, "b", Backslash, "\n">>), Expect(Bye)>>

(***************************************************************************)
(* C2, as stated: one send per unit returned by receive, whatever the unit *)
(* is: the sends never exceed the units received, and whenever the handler *)
(* is at the loop condition, in receive or out of the loop, every unit     *)
(* received so far has had its send.                                       *)
(***************************************************************************)
C2_OneSendPerUnit ==
    \A c \in Conns :
        /\ Len(sent[c]) <= UnitCount(received[c])
        /\ pc[c] \in {"while", "receive", "returned", "raised"} =>
               Len(sent[c]) = UnitCount(received[c])

(***************************************************************************)
(* C2, amended: ws.send is called once for every unit returned by receive  *)
(* that is a record (a JSON object), and for no other: the sends never     *)
(* exceed the receives, and whenever the handler is at the loop condition, *)
(* in receive or out of the loop, the sends made are as many as the        *)
(* records received; while lines 19-21 work on a unit, as many as the      *)
(* records before it.                                                      *)
(***************************************************************************)
C2_OneSendPerRecord ==
    \A c \in Conns :
        /\ Len(sent[c]) <= Len(received[c])
        /\ Len(sent[c]) = RecordCount(Handled(c))
        /\ Len(outbox[c]) <= Len(sent[c])

C2_Witness ==
    /\ pc[Echoed] = "receive"
    /\ received[Echoed] = <<PyStrOf(UnitSpaced.text), PyStrOf(UnitNumberField.text)>>
    /\ Len(sent[Echoed]) = 2

(***************************************************************************)
(* C3: on each connection the k-th reply written to the peer is the one    *)
(* derived from the k-th message received on it.                           *)
(***************************************************************************)
C3_RepliesInOrder ==
    \A c \in Conns : \A k \in 1..Len(outbox[c]) :
        /\ GotUnit(c, k)
        /\ IsRecord(UnitAt(c, k))
        /\ outbox[c][k] = Expect(UnitAt(c, k).shown)

C3_Witness ==
    /\ received["c1"] = <<PyStrOf(UnitHi.text), PyStrOf(UnitBye.text)>>
    /\ outbox["c1"] = <<Expect(Hi), Expect(Bye)>>

(***************************************************************************)
(* C4: a unit that is a record without a chat_message field does not make  *)
(* lines 19-20 fail: the reply passed to ws.send for it is "Received       *)
(* message: None", and the handler ends on that unit only if that send     *)
(* call itself raises; otherwise the loop goes on.                         *)
(***************************************************************************)
C4_AbsentFieldIsNone ==
    \A c \in Conns : \A k \in 1..Len(received[c]) :
        GotUnit(c, k) /\ IsRecord(UnitAt(c, k)) /\ ~HasField(UnitAt(c, k)) =>
            /\ k <= Len(sent[c]) => sent[c][k] = Expect(<<"N", "o", "n", "e">>)
            /\ k < Len(received[c]) => k <= Len(outbox[c])
            /\ k = Len(received[c]) /\ Ended(c) =>
                   /\ pc[c] = "raised"
                   /\ exc[c] = "WebSocketError"
                   /\ Len(sent[c]) = k

C4_Witness ==
    /\ received[Echoed] = <<PyStrOf(UnitOtherField.text), PyStrOf(UnitHi.text)>>
    /\ outbox[Echoed] = <<Expect(<<"N", "o", "n", "e">>), Expect(Hi)>>

(***************************************************************************)
(* C5: a unit that is not a record (not one JSON document, or a document   *)
(* that is no object) is the last thing the handler receives: no send is   *)
(* made for it or after it, the handler is in line 19 or 20 or has ended   *)
(* with the exception that line raised, and it stays there.                *)
(***************************************************************************)
C5_MalformedIsFatal ==
    \A c \in Conns : \A k \in 1..Len(received[c]) :
        GotUnit(c, k) /\ ~IsRecord(UnitAt(c, k)) =>
            /\ k = Len(received[c])
            /\ Len(sent[c]) = k - 1
            /\ Len(outbox[c]) = k - 1
            /\ pc[c] \in {"loads", "get", "raised"}
            /\ pc[c] = "get" => UnitAt(c, k).wellFormed
            /\ pc[c] = "raised" =>
                   exc[c] = IF UnitAt(c, k).wellFormed THEN "AttributeError"
                            ELSE "JSONDecodeError"

C5_Witness ==
    /\ pc[Echoed] = "raised"
    /\ received[Echoed] = <<PyStrOf(UnitTruncated.text)>>
    /\ inbox[Echoed] = <<UnitHi.text>>
    /\ sent[Echoed] = <<>>

(***************************************************************************)
(* C6: no receive call is started while ws.closed is true, and once        *)
(* ws.closed is true the handler comes to its end.                         *)
(***************************************************************************)
C6_NoReceiveOnceClosed ==
    /\ [][\A c \in Conns :
            closed[c] => ~(pc[c] # "receive" /\ pc'[c] = "receive")]_vars
    /\ \A c \in Conns : closed[c] ~> Ended(c)

C6_Witness ==
    /\ closed[Echoed]
    /\ Ended(Echoed)
    /\ Len(received[Echoed]) = 2
    /\ Len(outbox[Echoed]) = 1

(***************************************************************************)
(* C7: when the peer closes (or the handle is closed) with no unit ever    *)
(* written on the connection, no send is ever made and the handler comes   *)
(* to its end.                                                             *)
(***************************************************************************)
ClosedFirst(c) == (peerGone[c] \/ closed[c]) /\ Unwritten(c)

C7_CloseFirstSendsNothing ==
    /\ \A c \in Conns : [](ClosedFirst(c) => sent[c] = <<>>)
    /\ \A c \in Conns : ClosedFirst(c) ~> (Ended(c) /\ sent[c] = <<>>)

C7_Witness ==
    /\ peerGone[Echoed]
    /\ Ended(Echoed)
    /\ received[Echoed] = <<PyNone>>
    /\ sent[Echoed] = <<>>

(***************************************************************************)
(* C8: the record at position i of todos has id i, and a step changes      *)
(* todos only as a returning add_todo call does: one record more at the    *)
(* end, with the next id, the call's title and completed = False, the      *)
(* records before it as they were.  Every other step (homepage, polling,   *)
(* echo_socket, the peers) leaves todos as it is.                          *)
(***************************************************************************)
C8_TodosAppendOnly ==
    /\ [](\A i \in 1..Len(todos) : todos[i].id = i)
    /\ [][IF posts' # posts
          THEN /\ posts' = posts + 1
               /\ sockVars' = sockVars
               /\ \E w \in Workers :
                     /\ wpc[w] = "append" /\ wpc'[w] = "idle"
                     /\ todos' = Append(todos, [id |-> Len(todos) + 1,
                                                title |-> todo[w],
                                                completed |-> FALSE])
          ELSE todos' = todos]_vars

C8_Witness ==
    /\ Len(todos) = 4
    /\ posts = 2
    /\ response.route = "/todo"

(***************************************************************************)
(* C9: the sends of a connection are determined by what was received on    *)
(* that connection, and a step of one connection, of its peer or of an     *)
(* HTTP request changes nothing of another connection.                     *)
(***************************************************************************)
ConnState(c) ==
    <<pc[c], message[c], exc[c], closed[c], inbox[c], peerGone[c], outbox[c],
      received[c], sent[c]>>

C9_ConnectionsIndependent ==
    /\ [](\A c \in Conns :
            /\ Len(sent[c]) = RecordCount(Handled(c))
            /\ \A k \in 1..Len(sent[c]) : sent[c][k] = Expect(UnitAt(c, k).shown))
    /\ [][/\ \A c, d \in Conns :
               c # d /\ ConnState(c)' # ConnState(c) => ConnState(d)' = ConnState(d)
          /\ httpVars' # httpVars => sockVars' = sockVars]_vars

C9_Witness ==
    /\ pc["c1"] = "raised"
    /\ received["c1"] = <<PyStrOf(UnitTruncated.text)>>
    /\ received["c2"] = <<PyStrOf(UnitHi.text)>>
    /\ outbox["c2"] = <<Expect(Hi)>>

(***************************************************************************)
(* C10: with add_todo calls in flight side by side, every call that has    *)
(* returned has appended one record, and no two records have the same id.  *)
(***************************************************************************)
C10_ConcurrentAddsDistinctIds ==
    /\ Len(todos) = Len(InitialTodos) + posts
    /\ \A i, j \in 1..Len(todos) : i # j => todos[i].id # todos[j].id

C10_Witness ==
    /\ posts = 2
    /\ \A w \in Workers : seen[w] = Len(InitialTodos)

=============================================================================
